---- MODULE Spec2Model ----
(***************************************************************************)
(* The thread-safe LRU cache with per-entry TTL of src/lru_cache.py:       *)
(* class Node, class LRUCache (_remove, _add_to_head, _is_expired,         *)
(* _evict_expired, get, put, resize) and the threads that call it.         *)
(*                                                                         *)
(* The heap is a function from node identities to Node objects; the        *)
(* doubly linked list lives in the prev/next fields exactly as in the      *)
(* source.  A thread's position inside a call is pc[t]; the lock is the    *)
(* identity of its holder.  time.time() is the integer variable clock,     *)
(* which the environment advances between any two steps.                   *)
(***************************************************************************)
EXTENDS Integers, Sequences, FiniteSets, TLC

\* ------------------------------------------------------------- bounds
MaxClock == 1
MaxCap == 2
SpareNodes == 1

\* The keys the callers use: one more than the largest capacity of Caps as it
\* stands, so that a put can overflow a full cache.
Keys == {1, 2, 3}
ConcKeys == {1, 2}
Values == {-1, 5}
\* ttl = 0 (the deadline is the time read) and a positive ttl
TTLs == {0, 1}
Caps == 1 .. MaxCap
SeqThreads == {1}
\* What a caller can pass although the interface excludes it: a capacity that
\* is not positive, a negative ttl.
BadCaps == {-1, 0}
BadTTLs == {-1}
AnyKeys == {1, 2}
\* Where only progress is observed: one value (values steer no step), and the
\* ttl with which an entry expires as soon as the clock moves.
FairValues == {5}
FairTTLs == {0}
ConcThreads == {1, 2}

\* ------------------------------------------------ program constants
None == -2
head == 0
tail == -1
Miss == -1

VARIABLES
  capacity,   \* self.capacity
  cache,      \* self.cache: key -> node identity
  node,       \* the heap: node identity -> Node object
  lock,       \* self.lock: None, or the thread holding it
  pc,         \* per thread: where it stands in its current call
  loc,        \* per thread: the locals now (put) and current (_evict_expired)
  clock,      \* what time.time() returns
  out,        \* history: the last call body that ran, its arguments and result
  touched,    \* history: the keys of the index, most recently touched first
  snap,       \* history: the entries and their recency when the running resize began
  late        \* history: the threads whose waiting put has been overtaken (see Overtaken)

vars == <<capacity, cache, node, lock, pc, loc, clock, out, touched, snap, late>>

\* ---------------------------------------------------------- the heap
NewNode(key, value, expire_at) ==
  [key |-> key, value |-> value, expire_at |-> expire_at, prev |-> None, next |-> None]

\* Node identities a thread may get from the allocator.  Identities carry no
\* meaning in the program, so the allocator hands out k for a node of key k
\* when that identity is free, and the least free spare identity otherwise.
NodeIds == Keys \cup {10 + i : i \in 1 .. SpareNodes}
FreeIds(nd) == NodeIds \ DOMAIN nd
HasFresh(nd, k) == k \notin DOMAIN nd \/ FreeIds(nd) /= {}
Fresh(nd, k) ==
  IF k \notin DOMAIN nd THEN k
  ELSE CHOOSE i \in FreeIds(nd) : \A j \in FreeIds(nd) : i <= j

\* _remove raises AttributeError when a neighbour is None.
RemoveRaises(nd, n) == nd[n].prev = None \/ nd[n].next = None

\* Mutant of Remove: the second assignment (node.next.prev = node.prev) is
\* forgotten.
RemoveOneWay(nd, n) ==
  LET p == nd[n].prev
  IN IF p /= None THEN [nd EXCEPT ![p].next = nd[n].next] ELSE nd

\* _remove: node.prev.next = node.next ; node.next.prev = node.prev
\* (the statements before the one that raises have taken effect).
Remove(nd, n) ==
  LET p == nd[n].prev
      nd1 == IF p /= None THEN [nd EXCEPT ![p].next = nd[n].next] ELSE nd
      x == nd1[n].next
  IN IF p /= None /\ x /= None THEN [nd1 EXCEPT ![x].prev = nd1[n].prev] ELSE nd1

\* _add_to_head raises when head.next is None.
AddRaises(nd) == nd[head].next = None

\* Mutant of AddToHead: the node is linked before the tail sentinel instead
\* of after the head sentinel.
AddToTail(nd, n) ==
  LET nd1 == [nd EXCEPT ![n].prev = nd[tail].prev]
      nd2 == [nd1 EXCEPT ![n].next = tail]
      l == nd2[tail].prev
      nd3 == IF l /= None THEN [nd2 EXCEPT ![l].next = n] ELSE nd2
  IN IF l /= None THEN [nd3 EXCEPT ![tail].prev = n] ELSE nd3

\* _add_to_head: the four assignments in order.
AddToHead(nd, n) ==
  LET nd1 == [nd EXCEPT ![n].next = nd[head].next]
      nd2 == [nd1 EXCEPT ![n].prev = head]
      h == nd2[head].next
      nd3 == IF h /= None THEN [nd2 EXCEPT ![h].prev = n] ELSE nd2
  IN IF h /= None THEN [nd3 EXCEPT ![head].next = n] ELSE nd3

\* Mutant of IsExpired: the comparison is turned round.
IsExpiredFlipped(nd, n, now) == nd[n].expire_at > now

\* _is_expired: node.expire_at < time.time()
IsExpired(nd, n, now) == nd[n].expire_at < now

\* del self.cache[key]
DelKey(c, k) == [x \in (DOMAIN c) \ {k} |-> c[x]]

\* self.cache[key] = node
SetKey(c, k, n) == [x \in (DOMAIN c) \cup {k} |-> IF x = k THEN n ELSE c[x]]

\* ------------------------------------------------ garbage collection
\* An object lives as long as something refers to it: the cache object
\* (head, tail, the index), a local of a running call, or a field of a live
\* node.
Refs(nd, s) == s \cup {nd[n].prev : n \in s} \cup {nd[n].next : n \in s}

RECURSIVE Closure(_, _)
Closure(nd, s) ==
  LET s1 == Refs(nd, s) \ {None} IN IF s1 = s THEN s ELSE Closure(nd, s1)

Roots(c, l) == ({head, tail} \cup {c[k] : k \in DOMAIN c} \cup {l[t].cur : t \in DOMAIN l}) \ {None}

Collect(nd, c, l) == [n \in Closure(nd, Roots(c, l)) |-> nd[n]]

\* ------------------------------------------------------- the chain
\* The keys met following next from head.next to tail (at most Cardinality
\* of the heap steps, so that a corrupted chain still yields a value).
RECURSIVE Walk(_, _, _)
Walk(nd, n, fuel) ==
  IF n = tail \/ n = None \/ n = head \/ fuel = 0 THEN <<>>
  ELSE <<n>> \o Walk(nd, nd[n].next, fuel - 1)

Chain(nd) == Walk(nd, nd[head].next, Cardinality(DOMAIN nd))

RECURSIVE WalkBack(_, _, _)
WalkBack(nd, n, fuel) ==
  IF n = tail \/ n = None \/ n = head \/ fuel = 0 THEN <<>>
  ELSE WalkBack(nd, nd[n].prev, fuel - 1) \o <<n>>

ChainBack(nd) == WalkBack(nd, nd[tail].prev, Cardinality(DOMAIN nd))

ChainKeys(nd) == [i \in 1 .. Len(Chain(nd)) |-> nd[Chain(nd)[i]].key]

\* --------------------------------------------------- history helpers
NoCall ==
  [op |-> "none", key |-> 0, val |-> 0, ttl |-> 0, exp |-> 0, ret |-> 0, path |-> "none"]

Touch(s, k) == <<k>> \o SelectSeq(s, LAMBDA x : x /= k)
Live(s, c) == SelectSeq(s, LAMBDA x : x \in DOMAIN c)

NoSnap == [order |-> <<>>, ent |-> <<>>]

\* A call's locals: now (put), current (_evict_expired), key (get), and the
\* history field upd: the key that the call body which ran just before this
\* call's updated in place (0: it did not).
NoLocals == [now |-> None, cur |-> None, key |-> 0, upd |-> 0]
Updated(o) == IF o.op = "put" /\ o.path = "update" THEN o.key ELSE 0

\* ------------------------------------------------------------- Init
\* LRUCache.__init__ with a positive capacity, and every thread outside a call.
InitOver(T) ==
  /\ capacity \in Caps
  /\ cache = <<>>
  /\ node = (head :> [NewNode(0, 0, 0) EXCEPT !.next = tail])
            @@ (tail :> [NewNode(0, 0, 0) EXCEPT !.prev = head])
  /\ lock = None
  /\ pc = [t \in T |-> "idle"]
  /\ loc = [t \in T |-> NoLocals]
  /\ clock = 0
  /\ out = NoCall
  /\ touched = <<>>
  /\ snap = NoSnap
  /\ late = {}

\* ---------------------------------------------- results of code blocks
\* Mutant of Upsert: an existing node gets the new value and deadline but is
\* not moved to the head.
UpsertNoPromote(nd, c, k, v, e) ==
  IF k \in DOMAIN c
  THEN [node |-> [nd EXCEPT ![c[k]].value = v, ![c[k]].expire_at = e], cache |-> c,
        raised |-> FALSE]
  ELSE LET n == Fresh(nd, k)
           nd1 == nd @@ (n :> NewNode(k, v, e))
       IN [node |-> AddToHead(nd1, n), cache |-> SetKey(c, k, n), raised |-> AddRaises(nd1)]

\* put, lines 140-149: update in place and move to the head, or create,
\* index and link a new node.
Upsert(nd, c, k, v, e) ==
  IF k \in DOMAIN c
  THEN LET n == c[k]
           nd1 == [nd EXCEPT ![n].value = v, ![n].expire_at = e]
           nd2 == Remove(nd1, n)
       IN IF RemoveRaises(nd1, n)
          THEN [node |-> nd2, cache |-> c, raised |-> TRUE]
          ELSE [node |-> AddToHead(nd2, n), cache |-> c, raised |-> AddRaises(nd2)]
  ELSE LET n == Fresh(nd, k)
           nd1 == nd @@ (n :> NewNode(k, v, e))
       IN [node |-> AddToHead(nd1, n), cache |-> SetKey(c, k, n), raised |-> AddRaises(nd1)]

\* Mutant of SweepTurn: the test of _is_expired is missing, every node met is
\* removed.
SweepTurnAll(nd, c, cur, now) ==
  IF cur = head THEN [node |-> nd, cache |-> c, cur |-> None, status |-> "done"]
  ELSE IF cur = None THEN [node |-> nd, cache |-> c, cur |-> None, status |-> "raised"]
  ELSE IF RemoveRaises(nd, cur) \/ nd[cur].key \notin DOMAIN c
  THEN [node |-> Remove(nd, cur), cache |-> c, cur |-> None, status |-> "raised"]
  ELSE [node |-> Remove(nd, cur), cache |-> DelKey(c, nd[cur].key),
        cur |-> nd[cur].prev, status |-> "loop"]

\* Mutant of SweepTurn: at a node that is not expired the walk goes on to the
\* previous node instead of leaving the loop (continue for break).
SweepTurnOn(nd, c, cur, now) ==
  IF cur = head THEN [node |-> nd, cache |-> c, cur |-> None, status |-> "done"]
  ELSE IF cur = None THEN [node |-> nd, cache |-> c, cur |-> None, status |-> "raised"]
  ELSE IF ~IsExpired(nd, cur, now)
  THEN [node |-> nd, cache |-> c, cur |-> nd[cur].prev, status |-> "loop"]
  ELSE IF RemoveRaises(nd, cur) \/ nd[cur].key \notin DOMAIN c
  THEN [node |-> Remove(nd, cur), cache |-> c, cur |-> None, status |-> "raised"]
  ELSE [node |-> Remove(nd, cur), cache |-> DelKey(c, nd[cur].key),
        cur |-> nd[cur].prev, status |-> "loop"]

\* _evict_expired, one turn of the loop of lines 113-120 with current = cur.
\* status: "loop" (an expired node was removed), "done" (the loop is left),
\* "raised".
SweepTurn(nd, c, cur, now) ==
  IF cur = head THEN [node |-> nd, cache |-> c, cur |-> None, status |-> "done"]
  ELSE IF cur = None THEN [node |-> nd, cache |-> c, cur |-> None, status |-> "raised"]
  ELSE IF ~IsExpired(nd, cur, now)
  THEN [node |-> nd, cache |-> c, cur |-> None, status |-> "done"]
  ELSE IF RemoveRaises(nd, cur) \/ nd[cur].key \notin DOMAIN c
  THEN [node |-> Remove(nd, cur), cache |-> c, cur |-> None, status |-> "raised"]
  ELSE [node |-> Remove(nd, cur), cache |-> DelKey(c, nd[cur].key),
        cur |-> nd[cur].prev, status |-> "loop"]

\* Mutant of EvictTurn: the loop stops one entry early.
EvictTurnOffByOne(nd, c, cap) ==
  IF ~(Cardinality(DOMAIN c) > cap + 1)
  THEN [node |-> nd, cache |-> c, status |-> "done"]
  ELSE LET lru == nd[tail].prev
       IN IF lru = None THEN [node |-> nd, cache |-> c, status |-> "raised"]
          ELSE IF RemoveRaises(nd, lru) \/ nd[lru].key \notin DOMAIN c
          THEN [node |-> Remove(nd, lru), cache |-> c, status |-> "raised"]
          ELSE [node |-> Remove(nd, lru), cache |-> DelKey(c, nd[lru].key),
                status |-> "loop"]

\* Mutant of EvictTurn: the victim is taken at the head (head.next) instead of
\* the tail.
EvictTurnMRU(nd, c, cap) ==
  IF ~(Cardinality(DOMAIN c) > cap)
  THEN [node |-> nd, cache |-> c, status |-> "done"]
  ELSE LET lru == nd[head].next
       IN IF lru = None THEN [node |-> nd, cache |-> c, status |-> "raised"]
          ELSE IF RemoveRaises(nd, lru) \/ nd[lru].key \notin DOMAIN c
          THEN [node |-> Remove(nd, lru), cache |-> c, status |-> "raised"]
          ELSE [node |-> Remove(nd, lru), cache |-> DelKey(c, nd[lru].key),
                status |-> "loop"]

\* The capacity loop of put (153-156) and resize (162-165), one turn.
EvictTurn(nd, c, cap) ==
  IF ~(Cardinality(DOMAIN c) > cap)
  THEN [node |-> nd, cache |-> c, status |-> "done"]
  ELSE LET lru == nd[tail].prev
       IN IF lru = None THEN [node |-> nd, cache |-> c, status |-> "raised"]
          ELSE IF RemoveRaises(nd, lru) \/ nd[lru].key \notin DOMAIN c
          THEN [node |-> Remove(nd, lru), cache |-> c, status |-> "raised"]
          ELSE [node |-> Remove(nd, lru), cache |-> DelKey(c, nd[lru].key),
                status |-> "loop"]

\* Mutant of Lookup: an expired node is unlinked but stays in the index
\* (del self.cache[key] of line 129 is missing).
LookupKeepsIndex(nd, c, k, now) ==
  IF k \notin DOMAIN c
  THEN [node |-> nd, cache |-> c, ret |-> Miss, path |-> "absent", raised |-> FALSE]
  ELSE LET n == c[k]
           nd1 == Remove(nd, n)
       IN IF RemoveRaises(nd, n)
          THEN [node |-> nd1, cache |-> c, ret |-> Miss, path |-> "raised", raised |-> TRUE]
          ELSE IF IsExpired(nd, n, now)
          THEN [node |-> nd1, cache |-> c, ret |-> Miss, path |-> "expired",
                raised |-> FALSE]
          ELSE [node |-> AddToHead(nd1, n), cache |-> c, ret |-> nd[n].value,
                path |-> "hit", raised |-> AddRaises(nd1)]

\* Mutant of Lookup: a hit returns the value without moving the node (lines
\* 131-132 are missing).
LookupNoPromote(nd, c, k, now) ==
  IF k \notin DOMAIN c
  THEN [node |-> nd, cache |-> c, ret |-> Miss, path |-> "absent", raised |-> FALSE]
  ELSE LET n == c[k]
           nd1 == Remove(nd, n)
       IN IF RemoveRaises(nd, n)
          THEN [node |-> nd1, cache |-> c, ret |-> Miss, path |-> "raised", raised |-> TRUE]
          ELSE IF IsExpired(nd, n, now)
          THEN [node |-> nd1, cache |-> DelKey(c, k), ret |-> Miss, path |-> "expired",
                raised |-> FALSE]
          ELSE [node |-> nd, cache |-> c, ret |-> nd[n].value, path |-> "hit",
                raised |-> FALSE]

\* get, lines 124-133.
Lookup(nd, c, k, now) ==
  IF k \notin DOMAIN c
  THEN [node |-> nd, cache |-> c, ret |-> Miss, path |-> "absent", raised |-> FALSE]
  ELSE LET n == c[k]
           nd1 == Remove(nd, n)
       IN IF RemoveRaises(nd, n)
          THEN [node |-> nd1, cache |-> c, ret |-> Miss, path |-> "raised", raised |-> TRUE]
          ELSE IF IsExpired(nd, n, now)
          THEN [node |-> nd1, cache |-> DelKey(c, k), ret |-> Miss, path |-> "expired",
                raised |-> FALSE]
          ELSE [node |-> AddToHead(nd1, n), cache |-> c, ret |-> nd[n].value,
                path |-> "hit", raised |-> AddRaises(nd1)]

\* ------------------------------------------------------ the lock
\* Mutant of CanAcquire: the lock excludes nobody.
CanAcquireAlways == TRUE

\* threading.Lock: acquire blocks while another thread holds it.
CanAcquire == lock = None

\* history: the puts that still wait for the lock, with a time read earlier
\* than the time read by the put of thread t, when the put of t takes effect.
Overtaken(t) ==
  late \cup {u \in (DOMAIN pc) \ {t} : pc[u] = "put_lock" /\ loc[u].now < loc[t].now}

\* Mutant of Leave: the lock is acquired without `with` and never released.
LeaveLocked(t, nd, c, newpc, newloc, release) ==
  /\ cache' = c
  /\ loc' = [loc EXCEPT ![t] = newloc]
  /\ node' = Collect(nd, c, loc')
  /\ pc' = [pc EXCEPT ![t] = newpc]
  /\ lock' = lock
  /\ late' = late
  /\ touched' = Live(touched, c)

\* What every step inside `with self.lock:` leaves behind: the heap (with
\* unreferenced nodes collected), the index, the thread's position and
\* locals; leaving the block (normally or by an exception) releases the lock.
Leave(t, nd, c, newpc, newloc, release) ==
  /\ cache' = c
  /\ loc' = [loc EXCEPT ![t] = newloc]
  /\ node' = Collect(nd, c, loc')
  /\ pc' = [pc EXCEPT ![t] = newpc]
  /\ lock' = IF release THEN None ELSE lock
  /\ late' = late
  /\ touched' = Live(touched, c)

\* ------------------------------------------------------------ put
\* line 136: now = time.time(), before the lock is taken.
PutBegin(t) ==
  /\ pc[t] = "idle"
  /\ pc' = [pc EXCEPT ![t] = "put_lock"]
  /\ loc' = [loc EXCEPT ![t].now = clock]
  /\ UNCHANGED <<capacity, cache, node, lock, clock, out, touched, snap, late>>

\* line 139: with self.lock
PutAcquire(t) ==
  /\ pc[t] = "put_lock"
  /\ CanAcquire
  /\ lock' = t
  /\ pc' = [pc EXCEPT ![t] = "put_body"]
  /\ UNCHANGED <<capacity, cache, node, loc, clock, out, touched, snap, late>>

\* lines 137, 140-149, and line 112 (current = self.tail.prev) of the call
\* of _evict_expired that follows.
PutUpsert(t, k, v, ttl) ==
  /\ pc[t] = "put_body"
  /\ HasFresh(node, k)
  /\ LET e == loc[t].now + ttl
         r == Upsert(node, cache, k, v, e)
     IN /\ cache' = r.cache
        /\ loc' = [loc EXCEPT ![t] = IF r.raised THEN NoLocals
                                     ELSE [NoLocals EXCEPT !.cur = r.node[tail].prev,
                                                           !.upd = Updated(out)]]
        /\ node' = Collect(r.node, r.cache, loc')
        /\ pc' = [pc EXCEPT ![t] = IF r.raised THEN "raised" ELSE "put_sweep"]
        /\ lock' = IF r.raised THEN None ELSE lock
        /\ late' = Overtaken(t) \ {t}
        /\ touched' = Live(Touch(touched, k), r.cache)
        /\ out' = [op |-> "put", key |-> k, val |-> v, ttl |-> ttl, exp |-> e, ret |-> 0,
                   path |-> IF k \in DOMAIN cache THEN "update" ELSE "insert"]
  /\ UNCHANGED <<capacity, clock, snap>>

\* line 151: _evict_expired, one turn of its loop.
PutSweep(t) ==
  /\ pc[t] = "put_sweep"
  /\ LET r == SweepTurn(node, cache, loc[t].cur, clock)
     IN Leave(t, r.node, r.cache,
              CASE r.status = "loop" -> "put_sweep"
                [] r.status = "done" -> "put_evict"
                [] OTHER -> "raised",
              IF r.status = "raised" THEN NoLocals ELSE [loc[t] EXCEPT !.cur = r.cur],
              r.status = "raised")
  /\ UNCHANGED <<capacity, clock, out, snap>>

\* lines 153-156, one turn of the loop; leaving it ends the call.
PutEvict(t) ==
  /\ pc[t] = "put_evict"
  /\ LET r == EvictTurn(node, cache, capacity)
     IN Leave(t, r.node, r.cache,
              CASE r.status = "loop" -> "put_evict"
                [] r.status = "done" -> "idle"
                [] OTHER -> "raised",
              IF r.status = "loop" THEN loc[t] ELSE NoLocals, r.status /= "loop")
  /\ UNCHANGED <<capacity, clock, out, snap>>

\* ------------------------------------------------------------ get
\* get(key), line 123: with self.lock
GetAcquire(t, k) ==
  /\ pc[t] = "idle"
  /\ CanAcquire
  /\ lock' = t
  /\ pc' = [pc EXCEPT ![t] = "get_body"]
  /\ loc' = [loc EXCEPT ![t].key = k]
  /\ UNCHANGED <<capacity, cache, node, clock, out, touched, snap, late>>

\* lines 124-133; returning leaves the with block.
GetBody(t) ==
  /\ pc[t] = "get_body"
  /\ LET k == loc[t].key
         r == Lookup(node, cache, k, clock)
     IN /\ cache' = r.cache
        /\ loc' = [loc EXCEPT ![t] = NoLocals]
        /\ node' = Collect(r.node, r.cache, loc')
        /\ pc' = [pc EXCEPT ![t] = IF r.raised THEN "raised" ELSE "idle"]
        /\ lock' = None
        /\ late' = late
        /\ touched' = Live(IF r.path = "hit" THEN Touch(touched, k) ELSE touched, r.cache)
        /\ out' = [op |-> "get", key |-> k, val |-> 0, ttl |-> 0, exp |-> 0, ret |-> r.ret,
                   path |-> r.path]
  /\ UNCHANGED <<capacity, clock, snap>>

\* --------------------------------------------------------- resize
\* line 159: with self.lock
ResizeAcquire(t) ==
  /\ pc[t] = "idle"
  /\ CanAcquire
  /\ lock' = t
  /\ pc' = [pc EXCEPT ![t] = "rs_body"]
  /\ UNCHANGED <<capacity, cache, node, loc, clock, out, touched, snap, late>>

\* Mutant of ResizeSet: the sweep that follows has nothing to walk (it starts
\* at head), as if resize went straight to its capacity loop.
ResizeSetNoSweep(t, n) ==
  /\ pc[t] = "rs_body"
  /\ capacity' = n
  /\ Leave(t, node, cache, "rs_sweep",
           [NoLocals EXCEPT !.cur = head, !.upd = Updated(out)], FALSE)
  /\ out' = [op |-> "resize", key |-> 0, val |-> n, ttl |-> 0, exp |-> 0, ret |-> 0,
             path |-> "none"]
  /\ snap' = [order |-> touched,
              ent |-> [k \in DOMAIN cache |->
                         [value |-> node[cache[k]].value,
                          expire_at |-> node[cache[k]].expire_at]]]
  /\ UNCHANGED <<clock>>

\* line 160, and line 112 of the call of _evict_expired that follows.
ResizeSet(t, n) ==
  /\ pc[t] = "rs_body"
  /\ capacity' = n
  /\ Leave(t, node, cache, "rs_sweep",
           [NoLocals EXCEPT !.cur = node[tail].prev, !.upd = Updated(out)], FALSE)
  /\ out' = [op |-> "resize", key |-> 0, val |-> n, ttl |-> 0, exp |-> 0, ret |-> 0,
             path |-> "none"]
  /\ snap' = [order |-> touched,
              ent |-> [k \in DOMAIN cache |->
                         [value |-> node[cache[k]].value,
                          expire_at |-> node[cache[k]].expire_at]]]
  /\ UNCHANGED <<clock>>

\* line 161: _evict_expired, one turn of its loop.
ResizeSweep(t) ==
  /\ pc[t] = "rs_sweep"
  /\ LET r == SweepTurn(node, cache, loc[t].cur, clock)
     IN Leave(t, r.node, r.cache,
              CASE r.status = "loop" -> "rs_sweep"
                [] r.status = "done" -> "rs_evict"
                [] OTHER -> "raised",
              IF r.status = "raised" THEN NoLocals ELSE [loc[t] EXCEPT !.cur = r.cur],
              r.status = "raised")
  /\ snap' = IF SweepTurn(node, cache, loc[t].cur, clock).status = "raised" THEN NoSnap ELSE snap
  /\ UNCHANGED <<capacity, clock, out>>

\* lines 162-165, one turn of the loop; leaving it ends the call.
ResizeEvict(t) ==
  /\ pc[t] = "rs_evict"
  /\ LET r == EvictTurn(node, cache, capacity)
     IN Leave(t, r.node, r.cache,
              CASE r.status = "loop" -> "rs_evict"
                [] r.status = "done" -> "idle"
                [] OTHER -> "raised",
              IF r.status = "loop" THEN loc[t] ELSE NoLocals, r.status /= "loop")
  /\ snap' = IF EvictTurn(node, cache, capacity).status = "loop" THEN snap ELSE NoSnap
  /\ UNCHANGED <<capacity, clock, out>>

\* ---------------------------------------------------------- time
\* time.time() moves on.
Tick ==
  /\ clock < MaxClock
  /\ clock' = clock + 1
  /\ UNCHANGED <<capacity, cache, node, lock, pc, loc, out, touched, snap, late>>

\* ----------------------------------------------------- specifications
NextOver(T, K) ==
  \/ Tick
  \/ \E t \in T : PutBegin(t)
  \/ \E t \in T : PutAcquire(t)
  \/ \E t \in T, k \in K, v \in Values, ttl \in TTLs : PutUpsert(t, k, v, ttl)
  \/ \E t \in T : PutSweep(t)
  \/ \E t \in T : PutEvict(t)
  \/ \E t \in T, k \in K : GetAcquire(t, k)
  \/ \E t \in T : GetBody(t)
  \/ \E t \in T : ResizeAcquire(t)
  \/ \E t \in T, n \in Caps : ResizeSet(t, n)
  \/ \E t \in T : ResizeSweep(t)
  \/ \E t \in T : ResizeEvict(t)

Init == InitOver(SeqThreads)
Next == NextOver(SeqThreads, Keys)
\* One caller.
Spec == Init /\ [][Next]_vars

InitConc == InitOver(ConcThreads)
NextConc == NextOver(ConcThreads, ConcKeys)
\* Several callers, interleaved at every step.
SpecConc == InitConc /\ [][NextConc]_vars

\* The steps thread t takes while it holds the lock: it runs them whenever it
\* is scheduled.
Body(t) ==
  \/ \E k \in ConcKeys, v \in FairValues, ttl \in FairTTLs : PutUpsert(t, k, v, ttl)
  \/ PutSweep(t) \/ PutEvict(t)
  \/ GetBody(t)
  \/ \E n \in Caps : ResizeSet(t, n)
  \/ ResizeSweep(t) \/ ResizeEvict(t)

NextFair ==
  \/ Tick
  \/ \E t \in ConcThreads : PutBegin(t)
  \/ \E t \in ConcThreads : PutAcquire(t)
  \/ \E t \in ConcThreads : Body(t)
  \/ \E t \in ConcThreads, k \in ConcKeys : GetAcquire(t, k)
  \/ \E t \in ConcThreads : ResizeAcquire(t)

\* Several callers under a fair scheduler: a thread inside the lock goes on,
\* and a put that waits for the lock (line 139) gets it at one of the times
\* at which it is free.
FairConc ==
  /\ InitConc /\ [][NextFair]_vars
  /\ \A t \in ConcThreads : WF_vars(Body(t)) /\ SF_vars(PutAcquire(t))

\* The caller catches the exception a call raised and goes on.
Catch(t) ==
  /\ pc[t] = "raised"
  /\ pc' = [pc EXCEPT ![t] = "idle"]
  /\ UNCHANGED <<capacity, cache, node, lock, loc, clock, out, touched, snap, late>>

\* LRUCache.__init__ with any capacity: the constructor stores what it is given.
InitAny ==
  /\ capacity \in BadCaps \cup Caps
  /\ cache = <<>>
  /\ node = (head :> [NewNode(0, 0, 0) EXCEPT !.next = tail])
            @@ (tail :> [NewNode(0, 0, 0) EXCEPT !.prev = head])
  /\ lock = None
  /\ pc = [t \in SeqThreads |-> "idle"]
  /\ loc = [t \in SeqThreads |-> NoLocals]
  /\ clock = 0
  /\ out = NoCall
  /\ touched = <<>>
  /\ snap = NoSnap
  /\ late = {}

NextAny ==
  \/ NextOver(SeqThreads, AnyKeys)
  \/ \E t \in SeqThreads, n \in BadCaps : ResizeSet(t, n)
  \/ \E t \in SeqThreads, k \in AnyKeys, v \in Values, ttl \in BadTTLs : PutUpsert(t, k, v, ttl)
  \/ \E t \in SeqThreads : Catch(t)
\* One caller, and arguments of any sign.
SpecAny == InitAny /\ [][NextAny]_vars

\* ======================================================= properties
Occupancy == Cardinality(DOMAIN cache)
AllIdle == \A t \in DOMAIN pc : pc[t] = "idle"
\* The deadline stored for a key of the index, and whether it has passed.
Deadline(k) == node[cache[k]].expire_at
Passed(k) == Deadline(k) < clock
NonePassed == \A k \in DOMAIN cache : ~Passed(k)
\* The nodes other than the sentinels.
Entries(nd) == (DOMAIN nd) \ {head, tail}
SeqSet(q) == {q[i] : i \in 1 .. Len(q)}
Distinct(q) == \A i, j \in 1 .. Len(q) : i /= j => q[i] /= q[j]
Oldest(q) == q[Len(q)]
\* Thread t takes the step that leaves position p.
Leaves(t, p) == pc[t] = p /\ pc'[t] /= p
\* Thread t takes a turn of a capacity loop that removes an entry.
Evicts(t) == pc[t] \in {"put_evict", "rs_evict"} /\ DOMAIN cache' /= DOMAIN cache

\* ------------------------------------------------------------- C1
\* C1: whenever no call is inside the lock (every call that entered has
\* returned), the number of keys in the index is at most the capacity.
C1_CapacityInvariant == lock = None => Occupancy <= capacity

\* A put of a new key has returned, on a full cache, after time has passed.
C1_Witness ==
  /\ lock = None /\ AllIdle
  /\ out.op = "put" /\ out.path = "insert"
  /\ Occupancy = capacity /\ capacity = MaxCap /\ clock > 0

\* ------------------------------------------------------------- C2
\* The prev and next fields agree, from head to tail, and every node of the
\* heap is on the chain.
WellLinked ==
  /\ node[head].prev = None /\ node[tail].next = None
  /\ \A n \in (DOMAIN node) \ {tail} :
       node[n].next \in DOMAIN node /\ node[node[n].next].prev = n
  /\ \A n \in (DOMAIN node) \ {head} :
       node[n].prev \in DOMAIN node /\ node[node[n].prev].next = n
  /\ Chain(node) = ChainBack(node)
  /\ SeqSet(Chain(node)) = Entries(node)

\* C2: whenever no call is inside the lock, the keys of the index are exactly
\* the keys of the nodes linked between head and tail, each on one node, the
\* node stored under k has key k, and prev and next agree.
C2_LockStep ==
  lock = None =>
    /\ WellLinked
    /\ DOMAIN cache = SeqSet(ChainKeys(node))
    /\ Distinct(ChainKeys(node))
    /\ \A k \in DOMAIN cache : cache[k] \in SeqSet(Chain(node)) /\ node[cache[k]].key = k

\* Two entries are linked, one of them expired, after a get has moved an
\* entry to the head.
C2_Witness ==
  /\ lock = None /\ AllIdle
  /\ out.op = "get" /\ out.path = "hit"
  /\ Len(Chain(node)) = 2 /\ \E k \in DOMAIN cache : Passed(k)

\* ------------------------------------------------------------- C3
\* C3: when no entry is expired and the put of a new key has made the
\* occupancy exceed the capacity, the turn of put's capacity loop removes
\* exactly the key whose last touch is the oldest; the others, the new key
\* among them, stay as they are.
C3_LruOrder ==
  [][\A t \in DOMAIN pc :
       (pc[t] = "put_evict" /\ DOMAIN cache' /= DOMAIN cache
        /\ out.op = "put" /\ out.path = "insert" /\ NonePassed)
       => /\ DOMAIN cache' = (DOMAIN cache) \ {Oldest(touched)}
          /\ Oldest(touched) /= out.key
          /\ \A k \in DOMAIN cache' :
               cache'[k] = cache[k] /\ node'[cache[k]].value = node[cache[k]].value
                                    /\ node'[cache[k]].expire_at = node[cache[k]].expire_at]_vars

\* put(3) has returned from a cache of capacity 2 that held 1 and 2, 1 touched
\* last: 2 is gone, 1 and 3 are kept, and nothing is expired.
C3_Witness ==
  /\ lock = None /\ AllIdle
  /\ out.op = "put" /\ out.path = "insert" /\ out.key = 3
  /\ capacity = 2 /\ touched = <<3, 1>> /\ ChainKeys(node) = <<3, 1>>
  /\ NonePassed /\ clock > 0

\* ------------------------------------------------------------- C4
\* C4: a get of a key whose stored deadline has passed when its body runs
\* returns the miss signal, wherever the entry is in the chain.
C4_TtlPrecedence ==
  [][\A t \in DOMAIN pc :
       (Leaves(t, "get_body") /\ loc[t].key \in DOMAIN cache /\ Passed(loc[t].key))
       => out'.op = "get" /\ out'.key = loc[t].key /\ out'.ret = Miss]_vars

\* A get is running on the most recently used entry, which is expired and
\* holds a value other than the miss signal, while an entry behind it is not.
C4_Witness ==
  \E t \in DOMAIN pc :
    /\ pc[t] = "get_body"
    /\ loc[t].key \in DOMAIN cache /\ Passed(loc[t].key)
    /\ node[head].next = cache[loc[t].key]
    /\ node[cache[loc[t].key]].value /= Miss
    /\ \E k \in DOMAIN cache : ~Passed(k)

\* ------------------------------------------------------------- C5
\* C5: with a capacity of at least 1, a get(k) whose body is the first to run
\* after the body of put(k, v, ttl), at a time not past the deadline that put
\* computed, returns v.
C5_RoundTrip ==
  [][\A t \in DOMAIN pc :
       (Leaves(t, "get_body") /\ out.op = "put" /\ out.key = loc[t].key
        /\ ~(out.exp < clock) /\ capacity >= 1)
       => out'.op = "get" /\ out'.ret = out.val]_vars

\* get(k) runs right after put(k, 5, ttl) of a new key into a full cache,
\* after time has passed and within the deadline.
C5_Witness ==
  \E t \in DOMAIN pc :
    /\ pc[t] = "get_body"
    /\ out.op = "put" /\ out.path = "insert" /\ out.key = loc[t].key /\ out.val = 5
    /\ Occupancy = capacity /\ ~(out.exp < clock) /\ clock > 0

\* ------------------------------------------------------------- C6
\* The update itself: same node, new value and deadline, at the head, one
\* entry for the key, occupancy unchanged.
C6_InPlace(t) ==
  (Leaves(t, "put_body") /\ out'.path = "update")
  => LET k == out'.key
     IN /\ cache' = cache
        /\ node'[cache[k]].value = out'.val
        /\ node'[cache[k]].expire_at = out'.exp
        /\ node'[cache[k]].key = k
        /\ node'[head].next = cache[k]
        /\ Cardinality({n \in Entries(node') : node'[n].key = k}) = 1
        /\ Cardinality(Entries(node')) = Cardinality(Entries(node))

\* A get(k) that runs right after the update, within the new deadline,
\* returns the new value.
C6_ReadBack(t) ==
  (Leaves(t, "get_body") /\ out.op = "put" /\ out.path = "update"
   /\ out.key = loc[t].key /\ ~(out.exp < clock))
  => out'.ret = out.val

\* The original statement: the capacity eviction of the call that runs right
\* after the update removes some other key.
C6_Spared(t) ==
  (Evicts(t) /\ loc[t].upd \in DOMAIN cache) => loc[t].upd \in DOMAIN cache'

\* The same, where another entry can be the victim: a resize, or a put into a
\* cache of capacity at least 2.
C6_SparedIfNotAlone(t) ==
  (Evicts(t) /\ loc[t].upd \in DOMAIN cache /\ (pc[t] = "rs_evict" \/ capacity >= 2))
  => loc[t].upd \in DOMAIN cache'

\* C6 as stated: put on a key of the index updates value and deadline in
\* place, also of an expired node, moves the node to the most recently used
\* position, adds no entry; the next capacity eviction removes some other key
\* and a get(k) within the new ttl returns the new value.
C6_AsStated ==
  [][\A t \in DOMAIN pc : C6_InPlace(t) /\ C6_ReadBack(t) /\ C6_Spared(t)]_vars

\* C6 as amended: the next capacity eviction removes some other key when it is
\* a resize or the capacity is at least 2.
C6_UpdateResets ==
  [][\A t \in DOMAIN pc : C6_InPlace(t) /\ C6_ReadBack(t) /\ C6_SparedIfNotAlone(t)]_vars

\* The put of a new key, right after an update of key 1 at the head of a full
\* cache of capacity 2, has evicted the other key and returned.
C6_Witness ==
  \E t \in DOMAIN pc :
    /\ pc[t] = "put_evict" /\ loc[t].upd = 1
    /\ capacity = 2 /\ Occupancy = 2
    /\ out.op = "put" /\ out.path = "insert"
    /\ 1 \in DOMAIN cache

\* ------------------------------------------------------------- C7
\* C7: a resize(n) that began with m > n > 0 entries, none of them expired
\* when it returns, leaves the n most recently touched of them, in the same
\* order, with their values and deadlines, in the index and on the chain.
C7_ResizeShrink ==
  [][\A t \in DOMAIN pc :
       (pc[t] = "rs_evict" /\ pc'[t] = "idle"
        /\ 0 < capacity /\ capacity < Len(snap.order)
        /\ \A k \in DOMAIN snap.ent : ~(snap.ent[k].expire_at < clock))
       => LET kept == SubSeq(snap.order, 1, capacity)
          IN /\ DOMAIN cache' = SeqSet(kept)
             /\ Cardinality(DOMAIN cache') = capacity
             /\ ChainKeys(node') = kept
             /\ touched' = kept
             /\ Len(Chain(node')) = Cardinality(Entries(node'))
             /\ \A k \in SeqSet(kept) :
                  /\ node'[cache'[k]].key = k
                  /\ node'[cache'[k]].value = snap.ent[k].value
                  /\ node'[cache'[k]].expire_at = snap.ent[k].expire_at]_vars

\* A resize that began with more entries than the new capacity, none of them
\* expired, has evicted down to the capacity and is about to return.
C7_Witness ==
  \E t \in DOMAIN pc :
    /\ pc[t] = "rs_evict"
    /\ 0 < capacity /\ capacity < Len(snap.order) /\ Occupancy = capacity
    /\ \A k \in DOMAIN snap.ent : ~(snap.ent[k].expire_at < clock)
    /\ clock > 0

\* ------------------------------------------------------------- C8
\* Thread t is between the first and the last step of a call.
InCall(t) == pc[t] \notin {"idle", "raised"}

\* C8: between the first step of a call (for put: reading the time) and its
\* last, no other thread holds the lock, that is, executes a step of the
\* body of a call of its own.
C8_WholeCallExclusion ==
  \A t, u \in DOMAIN pc : (t /= u /\ InCall(t)) => lock /= u

\* ------------------------------------------------------------- C9
\* C9: no call raises, and when every thread is outside a call the index
\* holds at most capacity keys and agrees with the chain.
C9_Concurrency ==
  /\ \A t \in DOMAIN pc : pc[t] /= "raised"
  /\ AllIdle =>
       /\ Occupancy <= capacity
       /\ WellLinked
       /\ DOMAIN cache = SeqSet(ChainKeys(node))
       /\ Distinct(ChainKeys(node))
       /\ \A k \in DOMAIN cache : node[cache[k]].key = k

\* Both threads are outside a call, the cache is full, and the put that ran
\* last stored a deadline that has passed since.
C9_Witness ==
  /\ AllIdle /\ lock = None
  /\ Cardinality(DOMAIN pc) > 1
  /\ Occupancy = capacity /\ capacity = MaxCap
  /\ out.op = "put" /\ out.exp < clock

\* ------------------------------------------------------------ C10
\* C10 (its deadline clause): calls take effect in the order in which they
\* hold the lock, and the deadline of each put is computed from the time at
\* which it takes effect in that order: when a put takes effect, no put whose
\* deadline is computed from a later time has taken effect before it.
C10_DeadlineInOrder ==
  [][\A t \in DOMAIN pc : Leaves(t, "put_body") => t \notin late]_vars

\* ------------------------------------------------------------ C11
\* C11: on a cache of positive capacity, a resize(n) with n <= 0 is an error
\* for the caller and stores nothing: the capacity, the index and the chain
\* are as before the call.
C11_InvalidConfigRejected ==
  [][\A t \in DOMAIN pc :
       (Leaves(t, "rs_body") /\ out'.op = "resize" /\ out'.val <= 0 /\ capacity > 0)
       => /\ pc'[t] = "raised"
          /\ capacity' = capacity /\ cache' = cache /\ node' = node]_vars

\* ------------------------------------------------------------ C12
\* C12: on a cache of positive capacity, a put with ttl < 0 is an error for
\* the caller and leaves the index, the chain, the values and the deadlines
\* as they were; a put with ttl = 0 is carried out.
C12_InvalidTtlRejected ==
  [][\A t \in DOMAIN pc :
       /\ (Leaves(t, "put_body") /\ out'.ttl < 0 /\ capacity > 0)
          => pc'[t] = "raised" /\ cache' = cache /\ node' = node
       /\ (Leaves(t, "put_body") /\ out'.ttl = 0 /\ capacity > 0)
          => pc'[t] = "put_sweep" /\ out'.key \in DOMAIN cache']_vars

\* ------------------------------------------------------------ C13
\* C13: once put(k, v, 0) has returned, a get(k) that is the next call to run
\* returns the miss signal, whether or not the clock has moved since the put
\* read it.
C13_ZeroTtlExpires ==
  [][\A t \in DOMAIN pc :
       (Leaves(t, "get_body") /\ out.op = "put" /\ out.key = loc[t].key /\ out.ttl = 0)
       => out'.ret = Miss]_vars

\* ------------------------------------------------------------ C14
\* The positions inside `with self.lock:`.
BodyPcs ==
  {"put_body", "put_sweep", "put_evict", "get_body", "rs_body", "rs_sweep", "rs_evict"}

Without(q, k) == SelectSeq(q, LAMBDA x : x /= k)
\* The entries of the index other than k are the same nodes, with the same
\* values and deadlines, before and after the step.
OthersKept(k) ==
  \A j \in (DOMAIN cache) \ {k} :
    /\ j \in DOMAIN cache' /\ cache'[j] = cache[j]
    /\ node'[cache[j]].key = j
    /\ node'[cache[j]].value = node[cache[j]].value
    /\ node'[cache[j]].expire_at = node[cache[j]].expire_at

\* C15: a get(k) of a key of the index whose deadline has passed removes k,
\* and only k, from the index and from the chain, keeps the other entries and
\* their order, raises nothing and returns -1, which is also what a get of a
\* key that is not in the index returns.
C15_LazyExpiry ==
  [][\A t \in DOMAIN pc :
       LET k == loc[t].key
       IN /\ (Leaves(t, "get_body") /\ k \in DOMAIN cache /\ Passed(k))
             => /\ DOMAIN cache' = (DOMAIN cache) \ {k}
                /\ Cardinality(DOMAIN cache') = Occupancy - 1
                /\ ChainKeys(node') = Without(ChainKeys(node), k)
                /\ Len(Chain(node')) = Cardinality(Entries(node'))
                /\ OthersKept(k)
                /\ pc'[t] = "idle" /\ lock' = None
                /\ out'.ret = -1
          /\ (Leaves(t, "get_body") /\ k \notin DOMAIN cache)
             => pc'[t] = "idle" /\ out'.ret = -1]_vars

\* A get has found its key expired and removed it, and another entry, which
\* is not expired, is left.
C15_Witness ==
  /\ AllIdle /\ lock = None
  /\ out.op = "get" /\ out.path = "expired"
  /\ Occupancy = 1 /\ NonePassed /\ clock > 0

\* ------------------------------------------------------------ C16
\* C16: a get leaves the capacity, and the value and deadline of every entry
\* it keeps, as they were; a get of a key that is not in the index changes
\* nothing of the cache; a get that hits keeps the key set and moves the key
\* to the head of the chain, the other keys staying in their order.
C16_GetFrame ==
  [][\A t \in DOMAIN pc :
       LET k == loc[t].key
       IN Leaves(t, "get_body")
          => /\ capacity' = capacity
             /\ OthersKept(k)
             /\ k \notin DOMAIN cache
                => cache' = cache /\ node' = node
             /\ (k \in DOMAIN cache /\ ~Passed(k))
                => /\ cache' = cache
                   /\ node'[cache[k]].value = node[cache[k]].value
                   /\ node'[cache[k]].expire_at = node[cache[k]].expire_at
                   /\ ChainKeys(node') = <<k>> \o Without(ChainKeys(node), k)
                   /\ Len(Chain(node')) = Cardinality(Entries(node'))
                   /\ out'.ret = node[cache[k]].value]_vars

\* A get is running on the least recently used of two entries, which is
\* not expired while the other one is.
C16_Witness ==
  \E t \in DOMAIN pc :
    /\ pc[t] = "get_body"
    /\ loc[t].key \in DOMAIN cache /\ ~Passed(loc[t].key)
    /\ node[tail].prev = cache[loc[t].key]
    /\ Occupancy = 2 /\ \E j \in DOMAIN cache : Passed(j)

\* ------------------------------------------------------------ C17
\* The key that the put which thread t is running has written (0: t is not in
\* a put).
Own(t) == IF pc[t] \in {"put_sweep", "put_evict"} THEN out.key ELSE 0

\* C17: a turn of a capacity loop that removes an entry which is not expired
\* leaves no expired entry in the cache (the entry that the call itself has
\* just written is not looked at).
C17_ExpiryFirst ==
  [][\A t \in DOMAIN pc :
       (Evicts(t) /\ \E k \in (DOMAIN cache) \ DOMAIN cache' : ~Passed(k))
       => \A j \in (DOMAIN cache') \ {Own(t)} : ~Passed(j)]_vars

\* ------------------------------------------------------------ C18
\* Thread t takes the step that ends its run of _evict_expired normally.
SweepStops(t) ==
  \/ pc[t] = "put_sweep" /\ pc'[t] = "put_evict"
  \/ pc[t] = "rs_sweep" /\ pc'[t] = "rs_evict"

\* C18: when the run of _evict_expired in a put or a resize stops, every
\* entry left in the cache is not expired (the entry that the call itself has
\* just written is not looked at).
C18_SweepComplete ==
  [][\A t \in DOMAIN pc :
       SweepStops(t) => \A k \in (DOMAIN cache') \ {Own(t)} : ~Passed(k)]_vars

\* ------------------------------------------------------------ C19
\* Thread t takes a turn of the loop of _evict_expired.
SweepStep(t) ==
  /\ pc[t] \in {"put_sweep", "rs_sweep"}
  /\ pc'[t] /= pc[t] \/ loc'[t] /= loc[t]

\* One turn: current is the least recently used entry, or head when there is
\* none; an expired current is removed, and nothing else is, and the walk
\* goes on; at a current that is not expired, or at head, the walk ends and
\* nothing is removed.
C19_Turn(t) ==
  LET cur == loc[t].cur
      k == node[cur].key
  IN SweepStep(t)
     => /\ cur = node[tail].prev
        /\ (cur /= head /\ Passed(k))
           => /\ pc'[t] = pc[t]
              /\ DOMAIN cache' = (DOMAIN cache) \ {k}
              /\ ChainKeys(node') = SubSeq(ChainKeys(node), 1, Occupancy - 1)
              /\ Len(Chain(node')) = Cardinality(Entries(node'))
              /\ OthersKept(k)
        /\ (cur = head \/ ~Passed(k))
           => /\ SweepStops(t)
              /\ cache' = cache
              /\ ChainKeys(node') = ChainKeys(node)
              /\ OthersKept(0)

\* The whole run, in a resize: what is gone when the walk ends is an end
\* piece of the chain as it was, every entry of it expired, and the entry
\* before it, if there is one, is not expired.
C19_Run(t) ==
  (pc[t] = "rs_sweep" /\ pc'[t] = "rs_evict")
  => LET left == Cardinality(DOMAIN cache')
     IN /\ ChainKeys(node') = SubSeq(snap.order, 1, left)
        /\ \A i \in (left + 1) .. Len(snap.order) :
             snap.ent[snap.order[i]].expire_at < clock
        /\ left > 0 => ~(snap.ent[snap.order[left]].expire_at < clock)
        /\ \A j \in DOMAIN cache' :
             /\ node'[cache'[j]].value = snap.ent[j].value
             /\ node'[cache'[j]].expire_at = snap.ent[j].expire_at

\* C19: a run of _evict_expired removes, from the index and from the chain,
\* the longest run of expired entries at the least recently used end and
\* nothing else, and keeps the order, the values and the deadlines of the
\* entries that stay.
C19_SweepResult ==
  [][\A t \in DOMAIN pc : C19_Turn(t) /\ C19_Run(t)]_vars

\* The sweep of a resize that leaves room for both entries has removed the
\* least recently used one, expired, and stopped at the other, which is not.
C19_Witness ==
  \E t \in DOMAIN pc :
    /\ pc[t] = "rs_evict" /\ capacity = 2
    /\ Len(snap.order) = 2 /\ Occupancy = 1 /\ NonePassed

\* ------------------------------------------------------------ C20
\* C20: no key of the index is stored on a sentinel, head has no node before
\* it and tail none after it, following next from head ends at tail, and the
\* node that a capacity loop or a sweep is about to remove is not a sentinel.
C20_SentinelsSafe ==
  /\ \A k \in DOMAIN cache : cache[k] \notin {head, tail}
  /\ node[head].prev = None /\ node[tail].next = None
  /\ lock = None => Len(Chain(node)) = Cardinality(Entries(node))
  /\ \A t \in DOMAIN pc :
       /\ (pc[t] \in {"put_evict", "rs_evict"} /\ Occupancy > capacity)
          => node[tail].prev \notin {head, tail}
       /\ pc[t] \in {"put_sweep", "rs_sweep"} => loc[t].cur /= tail

\* ------------------------------------------------------------ C21
\* The steps of a resize follow one another: line 160, the sweep, the
\* capacity loop, the return; line 160 stores n, whatever the capacity was,
\* and removes nothing.
C21_Order(t) ==
  /\ Leaves(t, "rs_body")
     => /\ pc'[t] = "rs_sweep" /\ capacity' = out'.val
        /\ cache' = cache /\ ChainKeys(node') = ChainKeys(node)
  /\ Leaves(t, "rs_sweep") => pc'[t] = "rs_evict"
  /\ Leaves(t, "rs_evict") => pc'[t] = "idle" /\ Cardinality(DOMAIN cache') <= capacity
  /\ pc[t] \in {"rs_sweep", "rs_evict"} => capacity' = capacity

\* The capacity loop removes the least recently used entry, and only while
\* the occupancy exceeds n.
C21_Evicts(t) ==
  (pc[t] = "rs_evict" /\ DOMAIN cache' /= DOMAIN cache)
  => /\ Occupancy > capacity
     /\ DOMAIN cache' = (DOMAIN cache) \ {Oldest(touched)}
     /\ ChainKeys(node') = SubSeq(ChainKeys(node), 1, Occupancy - 1)

\* When the sweep of a resize ends and every entry the cache held is
\* expired, the cache is empty, whatever n is.
C21_AllExpired(t) ==
  (pc[t] = "rs_sweep" /\ pc'[t] = "rs_evict"
   /\ \A k \in DOMAIN snap.ent : snap.ent[k].expire_at < clock)
  => cache' = <<>> /\ Chain(node') = <<>>

\* A resize to a capacity that every entry fits in, a larger capacity among
\* them, removes only entries that are expired when they are removed.
C21_Grow(t) ==
  (pc[t] \in {"rs_sweep", "rs_evict"} /\ Len(snap.order) <= capacity)
  => \A k \in (DOMAIN cache) \ DOMAIN cache' : Passed(k)

\* C21: resize(n) stores n as the capacity for a larger and for a smaller n,
\* then runs the sweep, also when the occupancy is at most n, then evicts
\* least recently used entries until the occupancy is at most n; a cache
\* whose entries are all expired is left empty, and a resize to a larger
\* capacity removes no entry that is not expired.
C21_ResizeSweeps ==
  [][\A t \in DOMAIN pc :
       C21_Order(t) /\ C21_Evicts(t) /\ C21_AllExpired(t) /\ C21_Grow(t)]_vars

\* The sweep of a resize to a capacity that both entries fit in has emptied
\* the cache, both entries being expired.
C21_Witness ==
  \E t \in DOMAIN pc :
    /\ pc[t] = "rs_evict" /\ capacity = 2
    /\ Len(snap.order) = 2 /\ Occupancy = 0

\* ------------------------------------------------------------ C22
\* Key k leaves the index by a removal for its deadline: in the get of k or in
\* a turn of a sweep, and the deadline has passed.
TtlRemoval(t, k) ==
  /\ Passed(k)
  /\ \/ pc[t] = "get_body" /\ loc[t].key = k
     \/ pc[t] \in {"put_sweep", "rs_sweep"} /\ loc[t].cur = cache[k]

\* Key k leaves the index by a capacity eviction: the occupancy exceeds the
\* capacity and k is the least recently used entry.
CapacityEviction(t, k) ==
  /\ pc[t] \in {"put_evict", "rs_evict"}
  /\ Occupancy > capacity
  /\ node[tail].prev = cache[k] /\ k = Oldest(touched)

\* C22: a key leaves the index only by a removal for its deadline, which has
\* passed at that moment, or by a capacity eviction, with the occupancy above
\* the capacity and the key least recently used, one key at a step; an entry
\* that is not expired is not removed while the occupancy is within the
\* capacity; a key enters the index only in a put of that key.
C22_Lifecycle ==
  [][/\ \A k \in (DOMAIN cache) \ DOMAIN cache' :
          /\ \E t \in DOMAIN pc : lock = t /\ (TtlRemoval(t, k) \/ CapacityEviction(t, k))
          /\ (~Passed(k) => Occupancy > capacity)
          /\ DOMAIN cache' = (DOMAIN cache) \ {k}
          /\ cache[k] \notin SeqSet(Chain(node'))
     /\ \A k \in (DOMAIN cache') \ DOMAIN cache :
          /\ \E t \in DOMAIN pc : lock = t /\ pc[t] = "put_body"
          /\ out'.op = "put" /\ out'.key = k
          /\ node'[head].next = cache'[k]]_vars

\* The capacity loop of a put is about to evict an entry that is not
\* expired, after time has passed.
C22_Witness ==
  \E t \in DOMAIN pc :
    /\ pc[t] = "put_evict" /\ Occupancy > capacity
    /\ NonePassed /\ clock > 0

\* ------------------------------------------------------------ C23
\* A get(k) in this state returns the miss signal, at this and at any later
\* time: k is not in the index, or the value stored for k is the miss signal.
Unretrievable(k) == k \notin DOMAIN cache \/ node[cache[k]].value = Miss

\* The step is the one in which a put of k takes effect.
PutOf(k) == \E t \in DOMAIN pc : pc[t] = "put_body" /\ out'.op = "put" /\ out'.key = k

\* C23: a get(k) that returns the miss signal leaves k unretrievable; no
\* step other than a put of k (a get, a resize, a put of another key, the
\* clock moving on) makes an unretrievable key retrievable; and a get of an
\* unretrievable key returns the miss signal.  So after a miss every get(k)
\* misses until a put of k.
C23_MissesStable ==
  [][/\ \A t \in DOMAIN pc, k \in Keys :
          (Leaves(t, "get_body") /\ loc[t].key = k /\ out'.ret = Miss)
          => Unretrievable(k)'
     /\ \A k \in Keys : (Unretrievable(k) /\ ~PutOf(k)) => Unretrievable(k)'
     /\ \A t \in DOMAIN pc :
          (Leaves(t, "get_body") /\ Unretrievable(loc[t].key))
          => out'.op = "get" /\ out'.key = loc[t].key /\ out'.ret = Miss
     /\ clock' >= clock]_vars

\* A second get(k) runs right after the get(k) that found k expired, while
\* another entry is live.
C23_Witness ==
  \E t \in DOMAIN pc :
    /\ pc[t] = "get_body"
    /\ out.op = "get" /\ out.path = "expired" /\ out.key = loc[t].key
    /\ Occupancy > 0 /\ NonePassed

\* ------------------------------------------------------------ C24
\* C24: a get(k) returns -1 exactly when k is not in the index or its entry
\* is expired when the body runs; a hit of a live entry does not return -1.
C24_MissUnambiguous ==
  [][\A t \in DOMAIN pc :
       Leaves(t, "get_body")
       => (out'.ret = -1 <=> (loc[t].key \notin DOMAIN cache \/ Passed(loc[t].key)))]_vars

====
